---------------------------- MODULE Spec2Model ----------------------------
(***************************************************************************)
(* Lean Manufacturing Line Optimizer (src/Bottleneck_app.py).              *)
(*                                                                         *)
(* The program is one Streamlit script.  Every user interaction reruns it  *)
(* from the top: the sidebar is read, the four sheets of the workbook are  *)
(* obtained through the cached load_data(), the item's route is resolved,  *)
(* the current metrics are shown, the improvement grid is read, the        *)
(* improved metrics, the insights and the recommendations are shown and    *)
(* the report is exported.  One rerun is the chain of steps                *)
(*   Rerun -> Resolve -> CurrentMetrics -> Improve                         *)
(* whose position is pc; a rerun that stops (st.stop), falls into the      *)
(* else branch or raises ends the chain early.  Nothing but the cache      *)
(* entry of load_data() survives from one rerun to the next.               *)
(*                                                                         *)
(* Inputs.  The workbook is one of Workbooks, SetupBooks, LongBooks; the   *)
(* sidebar is one of SidebarNumbers and any item of the item list; the     *)
(* grid is any of Grids: the three improvement columns of st.data_editor,  *)
(* the columns it copies from the operation list being left as they are.   *)
(*                                                                         *)
(* Numbers.  The script computes in floats; the model computes in exact    *)
(* rationals [num, den] (den > 0, lowest terms) and keeps the one float    *)
(* value the script's control flow depends on, NaN, as [num 0, den 0]:     *)
(* every comparison with NaN is false and NaN is truthy.                   *)
(*                                                                         *)
(* Strings that the script normalises (labor grades) are sequences of      *)
(* one-character strings, so that strip() and lower() are computed.        *)
(***************************************************************************)
EXTENDS Integers, Sequences, FiniteSets, TLC

(***************************************************************************)
(* Bounds of the model.                                                    *)
(***************************************************************************)
\* rows of the item's route in the generated workbooks
MaxOps == 2
\* "Extra Operators" entered in the grid: 0..MaxOperators
MaxOperators == 1
\* rows of the grid the user edits in one rerun; the others keep the defaults
MaxEditedRows == 2
\* rows of the labor-grade sheet: 1..MaxGrades
MaxGrades == 2

(***************************************************************************)
(* Floats as exact rationals, with NaN.                                    *)
(***************************************************************************)
RECURSIVE GCD(_, _)
GCD(a, b) == IF b = 0 THEN a ELSE GCD(b, a % b)

Abs(n) == IF n < 0 THEN -n ELSE n

NaN == [num |-> 0, den |-> 0]

IsNaN(x) == x.den = 0

\* n/d in lowest terms with a positive denominator; x/0 is NaN
Frac(n, d) ==
    IF d = 0 THEN NaN
    ELSE LET g == GCD(Abs(n), Abs(d))
             s == IF d < 0 THEN -1 ELSE 1
         IN  [num |-> (s * n) \div g, den |-> (s * d) \div g]

Num(n) == [num |-> n, den |-> 1]

Zero == Num(0)

Add(x, y) == IF IsNaN(x) \/ IsNaN(y) THEN NaN
             ELSE Frac(x.num * y.den + y.num * x.den, x.den * y.den)

Sub(x, y) == IF IsNaN(x) \/ IsNaN(y) THEN NaN
             ELSE Frac(x.num * y.den - y.num * x.den, x.den * y.den)

Mul(x, y) == IF IsNaN(x) \/ IsNaN(y) THEN NaN
             ELSE Frac(x.num * y.num, x.den * y.den)

\* float division as the script uses it: the divisor is never 0 where it divides
Div(x, y) == IF IsNaN(x) \/ IsNaN(y) THEN NaN
             ELSE Frac(x.num * y.den, x.den * y.num)

\* x < y, x > y, x == y on floats: false as soon as one side is NaN
Lt(x, y) == ~IsNaN(x) /\ ~IsNaN(y) /\ x.num * y.den < y.num * x.den

Gt(x, y) == Lt(y, x)

Eq(x, y) == ~IsNaN(x) /\ ~IsNaN(y) /\ x.num * y.den = y.num * x.den

Le(x, y) == Lt(x, y) \/ Eq(x, y)

\* Python's max(a, b): b only when b > a
PyMax(a, b) == IF Gt(b, a) THEN b ELSE a

\* Python truthiness of a float: 0 is falsy, NaN is truthy
Truthy(x) == IsNaN(x) \/ x.num # 0

\* Series.fillna(0) on one cell
FillNa0(x) == IF IsNaN(x) THEN Zero ELSE x

\* Series.max(): NaN cells are skipped; NaN when nothing is left
RECURSIVE SeriesMax(_)
SeriesMax(s) ==
    IF s = <<>> THEN NaN
    ELSE LET m == SeriesMax(Tail(s))
         IN  IF IsNaN(Head(s)) THEN m
             ELSE IF IsNaN(m) THEN Head(s)
             ELSE IF Gt(Head(s), m) THEN Head(s) ELSE m

\* Series.sum() and the builtin sum() over a list of floats
RECURSIVE SeriesSum(_)
SeriesSum(s) == IF s = <<>> THEN Zero ELSE Add(Head(s), SeriesSum(Tail(s)))


(***************************************************************************)
(* Text cells.  str.strip() and str.lower() on a sequence of characters.   *)
(***************************************************************************)
LowerChar(c) == CASE c = "A" -> "a" [] c = "B" -> "b" [] c = "Z" -> "z" [] OTHER -> c

RECURSIVE LStrip(_)
LStrip(s) == IF s # <<>> /\ Head(s) = " " THEN LStrip(Tail(s)) ELSE s

RECURSIVE RStrip(_)
RStrip(s) == IF s # <<>> /\ s[Len(s)] = " " THEN RStrip(SubSeq(s, 1, Len(s) - 1)) ELSE s

\* .astype(str).str.strip().str.lower() on one cell
StripLower(s) == LET t == RStrip(LStrip(s)) IN [i \in 1..Len(t) |-> LowerChar(t[i])]

(***************************************************************************)
(* The workbook "Route File Lean.xlsx": four sheets.  A numeric cell that  *)
(* is empty or unparseable is NaN.  The sheet rodetail may or may not      *)
(* have the optional column setup_time.                                    *)
(***************************************************************************)
\* cycletime cells: an unparseable cell, 45 s, 50 s
CycleCells == {NaN, Num(45), Num(50)}

\* laborgrade cells of the operations: one that the grade sheet can match
\* after normalisation, one that it never matches
OpGradeCells == {<<" ", "a">>, <<"z">>}

\* rows of the labor-grade sheet
GradeA == [grade |-> <<"A", " ">>, hourrate |-> Num(18)]
GradeRows == {GradeA, [grade |-> <<"b">>, hourrate |-> Num(36)]}

\* setup_time: the column is absent, or present with this value in every row
NoSetup == [present |-> FALSE, value |-> NaN]
SetupColumns == {[present |-> TRUE, value |-> Num(120)],
                 [present |-> TRUE, value |-> Num(600)]}

\* the items of immaster (with a repeated row) and the item-to-route sheet:
\* P1 has two records (the first one wins), P2's route has no operations,
\* P3 has no record
ImmasterSheet == <<"P3", "P1", "P2", "P1">>
ApnrnSheet == <<[partno |-> "P1", routeno |-> "R1"],
                [partno |-> "P2", routeno |-> "R2"],
                [partno |-> "P1", routeno |-> "R9"]>>

\* a row of another route, first in the sheet
ForeignRow(setup) == [routeno |-> "R9", opno |-> 5, cycletime |-> Num(500),
                      laborgrade |-> <<"z">>, setup_time |-> setup.value]

\* the rows of route R1: n rows, opno 10..10n written in ascending or in
\* descending order
RouteRows(n, cells, order, setup) ==
    [i \in 1..n |->
        [routeno |-> "R1",
         opno |-> IF order = "asc" THEN 10 * i ELSE 10 * (n + 1 - i),
         cycletime |-> cells[i].cycletime,
         laborgrade |-> cells[i].laborgrade,
         setup_time |-> setup.value]]

Book(cograde, rows, setup) ==
    [cograde |-> cograde,
     rodetail |-> <<ForeignRow(setup)>> \o rows,
     has_setup |-> setup.present,
     apnrn |-> ApnrnSheet,
     immaster |-> ImmasterSheet]

SeqsUpTo(S, lo, hi) == UNION {[1..n -> S] : n \in lo..hi}

CogradeSheets == {<<GradeA>> \o t : t \in SeqsUpTo(GradeRows, 0, MaxGrades - 1)}

Matched == <<" ", "a">>

\* Workbooks that vary the cycle times: routes of 0..MaxOps operations with
\* every cycletime cell, written in either order; one matching grade row
CycleBooks ==
    {Book(<<GradeA>>,
          RouteRows(Len(c), [i \in 1..Len(c) |-> [cycletime |-> c[i], laborgrade |-> Matched]],
                    o, NoSetup), NoSetup) :
        c \in SeqsUpTo(CycleCells, 0, MaxOps), o \in {"asc", "desc"}}

\* Workbooks that vary the labor grades: every labor-grade sheet and every
\* laborgrade cell, for routes of 1..MaxOps operations of 45 s, 50 s, 45 s, ...
JoinBooks ==
    {Book(g,
          RouteRows(Len(c),
                    [i \in 1..Len(c) |->
                        [cycletime |-> IF i % 2 = 1 THEN Num(45) ELSE Num(50),
                         laborgrade |-> c[i]]],
                    o, NoSetup), NoSetup) :
        g \in CogradeSheets, c \in SeqsUpTo(OpGradeCells, 1, MaxOps),
        o \in {"asc", "desc"}}

Workbooks == CycleBooks \cup JoinBooks

\* Workbooks with the optional column setup_time
SetupBooks ==
    {Book(<<GradeA>>,
          RouteRows(Len(c), [i \in 1..Len(c) |-> [cycletime |-> c[i], laborgrade |-> Matched]],
                    "asc", s), s) :
        c \in SeqsUpTo(CycleCells, 1, MaxOps), s \in SetupColumns}

\* A workbook whose route has LongOps operations of 45 s
LongOps == 9
LongBooks ==
    {Book(<<GradeA>>,
          RouteRows(LongOps,
                    [i \in 1..LongOps |-> [cycletime |-> Num(45), laborgrade |-> Matched]],
                    "asc", NoSetup), NoSetup)}

\* the revisions the file goes through while the app is running
Revisions ==
    {Book(<<GradeA>>,
          RouteRows(1, <<[cycletime |-> c, laborgrade |-> Matched]>>, "asc", NoSetup),
          NoSetup) : c \in CycleCells}

(***************************************************************************)
(* Sidebar and grid inputs.                                                *)
(***************************************************************************)
\* The three numbers of the sidebar: "Demand per Shift" (value=400, no
\* min_value), "Order Quantity" (min_value=1, value=500) and "Shift Duration
\* (hours)" (min_value=1.0, value=8.0).  The defaults; a demand of zero; a
\* demand and a quantity of one; the shortest shift.
SidebarNumbers ==
    {[demand |-> 400, qty |-> 500, hours |-> 8],
     [demand |-> 0, qty |-> 500, hours |-> 8],
     [demand |-> 1, qty |-> 1, hours |-> 8],
     [demand |-> 400, qty |-> 2, hours |-> 1]}

Savings == {Num(0), Num(48)}
Pcts == {Num(0), Num(50), Num(100), Num(150)}

ImprovementSpecs == [operators : 0..MaxOperators, saving : Savings, pct : Pcts]

\* the defaults of the grid (lines 89-91)
DefaultSpec == [operators |-> 0, saving |-> Num(0), pct |-> Num(0)]

\* the grids the user can have entered for n rows: at most MaxEditedRows
\* rows differ from the defaults
Grids(n) ==
    UNION {
        {[i \in 1..n |-> IF i \in S THEN f[i] ELSE DefaultSpec] :
            f \in [S -> ImprovementSpecs \ {DefaultSpec}]} :
        S \in {T \in SUBSET (1..n) : Cardinality(T) <= MaxEditedRows}}

VARIABLES
    source,            \* the workbook on disk
    cache,             \* st.cache_data's entry for load_data(): {} or {tables}
    refreshed,         \* the Refresh Data button's value, until the tables are read
    tables,            \* cograde, rodetail, apnrn, immaster of this rerun
    item_input, customer_demand, order_qty, shift_hours,
    pc,                \* where the rerun is
    shown,             \* the sections rendered so far in this rerun
    route_ops,         \* the resolved operation list
    metrics,           \* bottleneck_time, takt_time, throughput
    edited_df,         \* the grid's three improvement columns, one per row
    result,            \* the per-row series and the new-state aggregates
    insight,           \* old_bn, new_bn and the message
    recommendations

vars == <<source, cache, refreshed, tables, item_input, customer_demand,
          order_qty, shift_hours, pc, shown, route_ops, metrics, edited_df,
          result, insight, recommendations>>

sidebar == <<item_input, customer_demand, order_qty, shift_hours>>

NoTables == [cograde |-> <<>>, rodetail |-> <<>>, has_setup |-> FALSE,
             apnrn |-> <<>>, immaster |-> <<>>]
NoMetrics == [bottleneck_time |-> NaN, bottleneck |-> <<>>, takt_time |-> NaN,
              throughput |-> NaN]
NoResult == [improved_cycle |-> <<>>, reduction |-> <<>>,
             savings_per_unit |-> <<>>, savings_order |-> <<>>,
             new_bottleneck_time |-> NaN, new_bottleneck_flag |-> <<>>,
             new_throughput |-> NaN, total_time_saved |-> NaN,
             total_savings_order |-> NaN, computed |-> FALSE]
NoInsight == [old_bn |-> 0, new_bn |-> 0, text |-> ""]

\* what a rerun starts from: nothing rendered, nothing computed
Blank ==
    /\ shown' = {}
    /\ route_ops' = <<>>
    /\ metrics' = NoMetrics
    /\ edited_df' = <<>>
    /\ result' = NoResult
    /\ insight' = NoInsight
    /\ recommendations' = <<>>

InitWith(books) ==
    /\ source \in books
    /\ cache = {}
    /\ refreshed = FALSE
    /\ tables = NoTables
    /\ item_input = "--Select--"
    /\ customer_demand = 400
    /\ order_qty = 500
    /\ shift_hours = 8
    /\ pc = "start"
    /\ shown = {}
    /\ route_ops = <<>>
    /\ metrics = NoMetrics
    /\ edited_df = <<>>
    /\ result = NoResult
    /\ insight = NoInsight
    /\ recommendations = <<>>

Init == InitWith(Workbooks \cup SetupBooks \cup LongBooks)

(***************************************************************************)
(* Lines 14-40: the top of the script.                                     *)
(***************************************************************************)
\* lines 14-16 without the clear()
ClearCache_Never(pressed, c) == c

\* st.cache_data.clear() when the button was pressed (lines 14-16)
ClearCache(pressed, c) == IF pressed THEN {} ELSE c

\* sorted(immaster["item"].dropna().unique()) (line 33)
ItemList(t) == {t.immaster[i] : i \in 1..Len(t.immaster)}

Idle == pc \in {"start", "prompt", "blocked", "crashed", "done"}

\* One rerun begins: the button, the cached load_data() and the sidebar.
Rerun ==
    /\ Idle
    /\ \E pressed \in BOOLEAN :
         LET c == ClearCache(pressed, cache)
             \* @st.cache_data: a hit returns the stored value, a miss runs
             \* load_data() on the file and stores what it returns
             loaded == IF c = {} THEN source ELSE CHOOSE t \in c : TRUE
         IN  /\ refreshed' = pressed
             /\ cache' = {loaded}
             /\ tables' = loaded
             /\ item_input' \in {"--Select--"} \cup ItemList(loaded)
    /\ \E n \in SidebarNumbers :
         /\ customer_demand' = n.demand
         /\ order_qty' = n.qty
         /\ shift_hours' = n.hours
    /\ pc' = "main"
    /\ Blank
    /\ UNCHANGED source

\* The workbook is replaced on disk while the app is running.
ChangeSource ==
    /\ \E b \in Revisions : b # source /\ source' = b
    /\ UNCHANGED <<cache, refreshed, tables, sidebar, pc, shown, route_ops,
                   metrics, edited_df, result, insight, recommendations>>

(***************************************************************************)
(* Lines 43-67: the route of the item and its operations.                  *)
(***************************************************************************)
\* line 46 without the comparison: every record of the sheet
RouteRow_NoFilter(t, item) == t.apnrn

\* apnrn[apnrn["partno"] == item_input] (line 46)
RouteRow(t, item) == SelectSeq(t.apnrn, LAMBDA r : r.partno = item)

\* rodetail[rodetail["routeno"] == route_no] (line 52)
OpsOfRoute(t, route_no) == SelectSeq(t.rodetail, LAMBDA r : r.routeno = route_no)

\* pd.to_numeric(..., errors="coerce").fillna(0) on the cycletime column (line 53)
CoerceCycle(rows) == [i \in 1..Len(rows) |->
                         [rows[i] EXCEPT !.cycletime = FillNa0(rows[i].cycletime)]]

\* sort_values("opno").reset_index(drop=True) (line 54)
RECURSIVE InsertByOpno(_, _)
InsertByOpno(r, sorted) ==
    IF sorted = <<>> THEN <<r>>
    ELSE IF r.opno < Head(sorted).opno THEN <<r>> \o sorted
    ELSE <<Head(sorted)>> \o InsertByOpno(r, Tail(sorted))

RECURSIVE SortByOpno(_)
SortByOpno(rows) ==
    IF rows = <<>> THEN <<>>
    ELSE InsertByOpno(rows[Len(rows)], SortByOpno(SubSeq(rows, 1, Len(rows) - 1)))

\* route_ops["station"] = [(i + 1) * 10 for i in range(len(route_ops))] (line 55)
AssignStations(rows) ==
    [i \in 1..Len(rows) |->
        [routeno |-> rows[i].routeno, opno |-> rows[i].opno,
         cycletime |-> rows[i].cycletime, laborgrade |-> rows[i].laborgrade,
         setup_time |-> rows[i].setup_time, station |-> i * 10]]

\* the laborgrade column, normalised (line 58)
NormaliseGrades(rows) ==
    [i \in 1..Len(rows) |->
        [rows[i] EXCEPT !.laborgrade = StripLower(rows[i].laborgrade)]]

\* cograde["grade"], normalised (line 59)
NormaliseCograde(cograde) ==
    [i \in 1..Len(cograde) |->
        [cograde[i] EXCEPT !.grade = StripLower(cograde[i].grade)]]

WithRate(row, rate) ==
    [routeno |-> row.routeno, opno |-> row.opno, cycletime |-> row.cycletime,
     laborgrade |-> row.laborgrade, setup_time |-> row.setup_time,
     station |-> row.station, hourrate |-> rate]

\* one left row of merge(how="left"): one output row per matching grade row, in
\* the grade sheet's order; a row with a missing rate when nothing matches
MergeRow(row, cograde) ==
    LET hits == SelectSeq(cograde, LAMBDA g : g.grade = row.laborgrade)
    IN  IF hits = <<>> THEN <<WithRate(row, NaN)>>
        ELSE [k \in 1..Len(hits) |-> WithRate(row, hits[k].hourrate)]

\* route_ops.merge(cograde[["grade", "hourrate"]], how="left") (lines 60-65)
RECURSIVE MergeLeft(_, _)
MergeLeft(rows, cograde) ==
    IF rows = <<>> THEN <<>>
    ELSE MergeRow(Head(rows), cograde) \o MergeLeft(Tail(rows), cograde)

\* route_ops["hourrate"].fillna(0) (line 66)
FillRates(rows) == [i \in 1..Len(rows) |->
                       [rows[i] EXCEPT !.hourrate = FillNa0(rows[i].hourrate)]]

\* lines 51-67
ResolveOps(t, route_no) ==
    FillRates(
        MergeLeft(
            NormaliseGrades(AssignStations(SortByOpno(CoerceCycle(OpsOfRoute(t, route_no))))),
            NormaliseCograde(t.cograde)))

\* The script reaches line 43.
Resolve ==
    /\ pc = "main"
    /\ IF item_input = "--Select--"
       THEN \* line 264: the else branch
            /\ pc' = "prompt"
            /\ shown' = shown \cup {"Select an item from the sidebar to begin"}
            /\ UNCHANGED <<route_ops, tables>>
       ELSE IF RouteRow(tables, item_input) = <<>>
       THEN \* lines 47-49: st.error and st.stop()
            /\ pc' = "blocked"
            /\ shown' = shown \cup {"No route found for this item."}
            /\ UNCHANGED <<route_ops, tables>>
       ELSE /\ route_ops' = ResolveOps(tables, RouteRow(tables, item_input)[1].routeno)
            /\ tables' = [tables EXCEPT !.cograde = NormaliseCograde(tables.cograde)]
            /\ pc' = "metrics"
            /\ UNCHANGED shown
    /\ refreshed' = FALSE
    /\ UNCHANGED <<source, cache, sidebar, metrics, edited_df, result, insight,
                   recommendations>>

(***************************************************************************)
(* Lines 70-81: the current metrics and the executive summary.             *)
(***************************************************************************)
CycleTimes(rows) == [i \in 1..Len(rows) |-> rows[i].cycletime]

\* series == value, row by row (lines 71 and 129)
FlagEqual(series, value) == [i \in 1..Len(series) |-> Eq(series[i], value)]

\* shift_sec / customer_demand if customer_demand else 0 (lines 40 and 72)
TaktTime(hours, demand) ==
    IF demand # 0 THEN Div(Num(hours * 3600), Num(demand)) ELSE Zero

\* 3600 / bottleneck_time if bottleneck_time else 0 (lines 73 and 130)
Throughput(time) == IF Truthy(time) THEN Div(Num(3600), time) ELSE Zero

CurrentMetrics ==
    /\ pc = "metrics"
    /\ LET bottleneck_time == SeriesMax(CycleTimes(route_ops))
       IN  metrics' = [bottleneck_time |-> bottleneck_time,
                       bottleneck |-> FlagEqual(CycleTimes(route_ops), bottleneck_time),
                       takt_time |-> TaktTime(shift_hours, customer_demand),
                       throughput |-> Throughput(bottleneck_time)]
    /\ shown' = shown \cup {"Executive Summary"}
    /\ pc' = "grid"
    /\ UNCHANGED <<source, cache, refreshed, tables, sidebar, route_ops, edited_df,
                   result, insight, recommendations>>

(***************************************************************************)
(* Lines 84-130: the improvement grid and the per-row calculation.         *)
(***************************************************************************)
\* lines 109-113 without the two floors
ImprovedTime_NoFloor(original, operators, saving_sec, improvement_pct) ==
    LET saved == Sub(Div(original, Num(operators + 1)), saving_sec)
    IN  IF Gt(improvement_pct, Zero)
        THEN Mul(saved, Sub(Num(1), Div(improvement_pct, Num(100))))
        ELSE saved

\* lines 109-113 with the fixed saving added instead of subtracted
ImprovedTime_AddsSaving(original, operators, saving_sec, improvement_pct) ==
    LET saved == PyMax(Add(Div(original, Num(operators + 1)), saving_sec), Zero)
    IN  PyMax(IF Gt(improvement_pct, Zero)
              THEN Mul(saved, Sub(Num(1), Div(improvement_pct, Num(100))))
              ELSE saved, Zero)

\* lines 109-113
ImprovedTime(original, operators, saving_sec, improvement_pct) ==
    LET divided == Div(original, Num(operators + 1))
        saved == PyMax(Sub(divided, saving_sec), Zero)
        scaled == IF Gt(improvement_pct, Zero)
                  THEN Mul(saved, Sub(Num(1), Div(improvement_pct, Num(100))))
                  ELSE saved
    IN  PyMax(scaled, Zero)

\* line 116
Reduction(original, new_time) == Sub(original, new_time)

\* line 119 without the seconds-to-hours division
SavePerUnit_PerSecond(red, rate) == Mul(red, rate)

\* line 119
SavePerUnit(red, rate) == Mul(Div(red, Num(3600)), rate)

\* line 121
SavePerOrder(save_unit, qty) == Mul(save_unit, Num(qty))

\* one pass of the loop of lines 102-121
RowResult(row, spec, qty) ==
    LET new_time == ImprovedTime(row.cycletime, spec.operators, spec.saving, spec.pct)
    IN  LET red == Reduction(row.cycletime, new_time)
        IN  LET save_unit == SavePerUnit(red, row.hourrate)
            IN  [new_time |-> new_time, red |-> red, save_unit |-> save_unit,
                 save_order |-> SavePerOrder(save_unit, qty)]

\* lines 123-130 and 152-153, on the rows the loop produced
Aggregate(done) ==
    LET improved == [i \in 1..Len(done) |-> done[i].new_time]
        red == [i \in 1..Len(done) |-> done[i].red]
        order == [i \in 1..Len(done) |-> done[i].save_order]
    IN  [improved_cycle |-> improved,
         reduction |-> red,
         savings_per_unit |-> [i \in 1..Len(done) |-> done[i].save_unit],
         savings_order |-> order,
         new_bottleneck_time |-> SeriesMax(improved),
         new_bottleneck_flag |-> FlagEqual(improved, SeriesMax(improved)),
         new_throughput |-> Throughput(SeriesMax(improved)),
         total_time_saved |-> SeriesSum(red),
         total_savings_order |-> SeriesSum(order),
         computed |-> TRUE]

\* lines 97-130 and 152-153
Simulate(rows, grid, qty) ==
    Aggregate([i \in 1..Len(rows) |-> RowResult(rows[i], grid[i], qty)])

(***************************************************************************)
(* Lines 133-155: the improvement results and the insights.                *)
(***************************************************************************)
\* route_ops.loc[flag, "opno"].values: the opno of the flagged rows, in order
FlaggedOpnos(rows, flag) ==
    LET idx == SelectSeq([i \in 1..Len(rows) |-> i], LAMBDA i : flag[i])
    IN  [k \in 1..Len(idx) |-> rows[idx[k]].opno]

\* .values[-1] instead of .values[0]
First_Last(values) == values[Len(values)]

\* .values[0] (lines 140-141), on an array that has an element
First(values) == values[1]

\* lines 140-145
Insight(old, new) ==
    [old_bn |-> First(old), new_bn |-> First(new),
     text |-> IF First(old) # First(new) THEN "Bottleneck moved"
              ELSE "Bottleneck unchanged"]

(***************************************************************************)
(* Lines 217-234: the recommendations.                                     *)
(***************************************************************************)
\* Series.mean()
Mean(s) == Div(SeriesSum(s), Num(Len(s)))

\* Series.std() squared: the sample variance (ddof=1), NaN for fewer than two rows
Variance(s) ==
    IF Len(s) < 2 THEN NaN
    ELSE LET m == Mean(s)
             sq == [i \in 1..Len(s) |-> Mul(Sub(s[i], m), Sub(s[i], m))]
         IN  Div(SeriesSum(sq), Num(Len(s) - 1))

\* route_ops["cycletime"].std() / route_ops["cycletime"].mean() > 0.2 (line 223).
\* std is the square root of the variance, so for a positive mean the test is
\* variance > (0.2 * mean)^2; a zero mean gives 0/0 = NaN and a false test.
HighVariation(s) ==
    LET m == Mean(s)
    IN  /\ Gt(m, Zero)
        /\ Gt(Mul(Num(25), Variance(s)), Mul(m, m))

\* route_ops.get("setup_time") is not None and route_ops["setup_time"].max() > 300
HighSetup(has_setup, rows) ==
    has_setup /\ Gt(SeriesMax([i \in 1..Len(rows) |-> rows[i].setup_time]), Num(300))

Rule(cond, tag) == IF cond THEN <<tag>> ELSE <<>>

\* lines 217-228 as an if/elif chain: the first rule that holds, alone
Recommendations_ElseIf(rows, has_setup, m, r, demand) ==
    IF Gt(r.new_bottleneck_time, m.takt_time) THEN <<"Bottleneck exceeds Takt">>
    ELSE IF Gt(r.total_time_saved, Zero) THEN <<"Improvement validated">>
    ELSE IF HighVariation(CycleTimes(rows)) THEN <<"High variation">>
    ELSE IF HighSetup(has_setup, rows) THEN <<"High setup">>
    ELSE Rule(Lt(r.new_throughput, Num(demand)), "Low throughput")

\* lines 217-228
Recommendations(rows, has_setup, m, r, demand) ==
    Rule(Gt(r.new_bottleneck_time, m.takt_time), "Bottleneck exceeds Takt")
    \o Rule(Gt(r.total_time_saved, Zero), "Improvement validated")
    \o Rule(HighVariation(CycleTimes(rows)), "High variation")
    \o Rule(HighSetup(has_setup, rows), "High setup")
    \o Rule(Lt(r.new_throughput, Num(demand)), "Low throughput")

\* lines 230-234
RecommendationPanel(recs) ==
    IF recs # <<>> THEN {"Recommendations"} ELSE {"Process is balanced"}

(***************************************************************************)
(* Lines 84-261: the script from the grid to the export.  The grid is read *)
(* where the script stands; nothing else is read until the export.         *)
(***************************************************************************)
Improve ==
    /\ pc = "grid"
    /\ \E grid \in Grids(Len(route_ops)) :
         /\ edited_df' = grid
         /\ result' = Simulate(route_ops, grid, order_qty)
    /\ IF \/ FlaggedOpnos(route_ops, metrics.bottleneck) = <<>>
          \/ FlaggedOpnos(route_ops, result'.new_bottleneck_flag) = <<>>
       THEN \* .values[0] of an empty array raises IndexError, after the two
            \* metrics of lines 136-137 were rendered
            /\ pc' = "crashed"
            /\ shown' = shown \cup {"Improvement Results", "IndexError"}
            /\ UNCHANGED <<insight, recommendations>>
       ELSE /\ pc' = "done"
            /\ insight' = Insight(FlaggedOpnos(route_ops, metrics.bottleneck),
                                  FlaggedOpnos(route_ops, result'.new_bottleneck_flag))
            /\ recommendations' = Recommendations(route_ops, tables.has_setup, metrics,
                                                  result', customer_demand)
            /\ shown' = shown
                 \cup {"Improvement Results", "Insights",
                       IF Gt(result'.new_bottleneck_time, metrics.takt_time)
                       THEN "Cannot meet customer demand"
                       ELSE "Meets customer demand"}
                 \cup {"Yamazumi Chart", "Detailed Data", "Download Report"}
                 \cup RecommendationPanel(recommendations')
    /\ UNCHANGED <<source, cache, refreshed, tables, sidebar, route_ops, metrics>>

Next ==
    \/ Rerun
    \/ Resolve
    \/ CurrentMetrics
    \/ Improve

Spec == Init /\ [][Next]_vars

\* the app with the workbook changing under it
InitCache == InitWith(Revisions)

NextCache == Next \/ ChangeSource

SpecCache == InitCache /\ [][NextCache]_vars

(***************************************************************************)
(* Vocabulary of the properties.                                           *)
(***************************************************************************)
Rows == 1..Len(route_ops)

\* the rerun got past the route lookup and holds an operation list
Resolved == pc \in {"metrics", "grid", "crashed", "done"}

\* the rerun ran the improvement loop
Computed == result.computed

\* the item has a record in the item-to-route sheet
HasRecord == \E k \in 1..Len(tables.apnrn) : tables.apnrn[k].partno = item_input

\* the route number of the item's first record
RouteNo ==
    LET k == CHOOSE k \in 1..Len(tables.apnrn) :
                 /\ tables.apnrn[k].partno = item_input
                 /\ \A j \in 1..(k - 1) : tables.apnrn[j].partno # item_input
    IN  tables.apnrn[k].routeno

\* the rows of the operation sheet that belong to the item's route
RouteRowSet == {k \in 1..Len(tables.rodetail) : tables.rodetail[k].routeno = RouteNo}

NonNegative(x) == ~IsNaN(x) /\ x.num >= 0

ValidSpec(e) ==
    /\ e.operators >= 0
    /\ NonNegative(e.saving)
    /\ NonNegative(e.pct) /\ e.pct.num <= 100 * e.pct.den

NonTrivial(e) == e.operators > 0 \/ e.saving.num > 0 \/ e.pct.num > 0

(***************************************************************************)
(* C1.  For every operation with cycle time >= 0 and every valid           *)
(* ImprovementSpec (operators >= 0, saving >= 0, percentage in 0..100) the *)
(* improved cycle time is >= 0.                                            *)
(***************************************************************************)
C1_ImprovedNonNegative ==
    Computed =>
        \A i \in Rows :
            (NonNegative(route_ops[i].cycletime) /\ ValidSpec(edited_df[i]))
                => NonNegative(result.improved_cycle[i])

\* a row with no extra operator, a saving above its cycle time and 100 percent
C1_Witness ==
    /\ Computed
    /\ \E i \in Rows :
         /\ edited_df[i].operators = 0
         /\ Gt(edited_df[i].saving, route_ops[i].cycletime)
         /\ Gt(route_ops[i].cycletime, Zero)
         /\ edited_df[i].pct = Num(100)
         /\ result.improved_cycle[i] = Zero

RefFloor(x) == IF x.num < 0 THEN Zero ELSE x

RefImproved(original, e) ==
    RefFloor(Mul(RefFloor(Sub(Frac(original.num, original.den * (e.operators + 1)),
                              e.saving)),
                 IF e.pct.num > 0 THEN Frac(100 * e.pct.den - e.pct.num, 100 * e.pct.den)
                 ELSE Num(1)))

RECURSIVE RefTotal(_, _)
RefTotal(series, n) == IF n = 0 THEN Zero ELSE Add(RefTotal(series, n - 1), series[n])

(***************************************************************************)
(* C3.  Every row equals the reference computation                         *)
(*   improved = max(0, max(0, original/(operators+1) - saving) * f),       *)
(*   f = 1 - pct/100 when pct > 0 and 1 otherwise,                         *)
(*   reduction = original - improved,                                      *)
(*   savings_per_unit = reduction/3600 * rate,                             *)
(*   savings_per_order = savings_per_unit * order_qty,                     *)
(* and the two totals are the sums over the rows.                          *)
(***************************************************************************)
C3_MatchesReference ==
    Computed =>
        /\ \A i \in Rows :
             LET improved == RefImproved(route_ops[i].cycletime, edited_df[i])
                 reduced == Sub(route_ops[i].cycletime, improved)
                 unit == Frac(reduced.num * route_ops[i].hourrate.num,
                              reduced.den * 3600 * route_ops[i].hourrate.den)
             IN  /\ result.improved_cycle[i] = improved
                 /\ result.reduction[i] = reduced
                 /\ result.savings_per_unit[i] = unit
                 /\ result.savings_order[i] = Frac(unit.num * order_qty, unit.den)
        /\ result.total_time_saved = RefTotal(result.reduction, Len(route_ops))
        /\ result.total_savings_order = RefTotal(result.savings_order, Len(route_ops))

\* a row on which all three levers act and leave a positive time and saving
C3_Witness ==
    /\ Computed
    /\ \E i \in Rows :
         /\ Gt(edited_df[i].saving, Zero)
         /\ edited_df[i].pct = Num(50)
         /\ Gt(result.improved_cycle[i], Zero)
         /\ Gt(result.savings_order[i], Zero)
    /\ \E i \in Rows : edited_df[i].operators = 1 /\ Gt(result.improved_cycle[i], Zero)

InvalidParams ==
    \/ pc # "start" /\ customer_demand <= 0
    \/ \E i \in 1..Len(edited_df) : ~(NonNegative(edited_df[i].pct)
                                     /\ edited_df[i].pct.num <= 100 * edited_df[i].pct.den)

(***************************************************************************)
(* C4.  A run whose demand is zero or negative, or one of whose            *)
(* percentages is outside [0, 100], is rejected before computation: it     *)
(* produces no takt time, bottleneck, throughput, savings or               *)
(* recommendations.                                                        *)
(***************************************************************************)
C4_InvalidParamsRejected ==
    InvalidParams =>
        /\ pc # "done"
        /\ metrics = NoMetrics
        /\ ~Computed
        /\ recommendations = <<>>
        /\ "Executive Summary" \notin shown

EmptyRoute ==
    /\ pc \notin {"start", "main", "prompt"}
    /\ HasRecord
    /\ RouteRowSet = {}

(***************************************************************************)
(* C5.  When the item's route has no operations the run is rejected: it    *)
(* neither raises nor reports a bottleneck time, a throughput or a         *)
(* bottleneck identity.                                                    *)
(***************************************************************************)
C5_EmptyRouteRejected ==
    EmptyRoute =>
        /\ pc # "crashed"
        /\ "IndexError" \notin shown
        /\ "Executive Summary" \notin shown
        /\ "Improvement Results" \notin shown

GradeListed(g) == \E k \in 1..Len(tables.cograde) : StripLower(tables.cograde[k].grade) = g

(***************************************************************************)
(* C6.  For a route of N operations and any labor-grade sheet, the         *)
(* resolved operation list has N rows in ascending operation-number order, *)
(* stations 10, 20, ..., 10N, and every operation with an unmatched grade  *)
(* is kept with hourly rate 0.                                             *)
(***************************************************************************)
C6_StationsDense ==
    Resolved =>
        /\ Len(route_ops) = Cardinality(RouteRowSet)
        /\ \A i \in Rows : route_ops[i].station = 10 * i
        /\ \A i, j \in Rows : i < j => route_ops[i].opno < route_ops[j].opno
        /\ \A k \in RouteRowSet :
             \E i \in Rows :
                /\ route_ops[i].opno = tables.rodetail[k].opno
                /\ ~GradeListed(StripLower(tables.rodetail[k].laborgrade))
                     => route_ops[i].hourrate = Zero

NoRouteItem == pc \notin {"start", "main"} /\ item_input # "--Select--" /\ ~HasRecord

(***************************************************************************)
(* C7.  When the selected item has no record in the item-to-route sheet    *)
(* the run is blocked with the message that no route was found and nothing *)
(* else of that run exists: no operation list, metrics, results, insights, *)
(* recommendations or export.                                              *)
(***************************************************************************)
C7_NoRouteBlocks ==
    NoRouteItem =>
        /\ pc = "blocked"
        /\ shown = {"No route found for this item."}
        /\ route_ops = <<>>
        /\ metrics = NoMetrics
        /\ edited_df = <<>>
        /\ result = NoResult
        /\ insight = NoInsight
        /\ recommendations = <<>>

C7_Witness == pc = "blocked" /\ item_input = "P3"

(***************************************************************************)
(* C8.  The table read of a rerun: after a refresh, or when nothing was    *)
(* loaded yet, it loads the four tables from the file as it is now; with   *)
(* no refresh since the last load it returns the tables of that load,      *)
(* whatever the file has become.                                           *)
(***************************************************************************)
C8_CacheContract ==
    [][(pc' = "main" /\ pc # "main") =>
          IF refreshed' \/ cache = {}
          THEN tables' = source /\ cache' = {source}
          ELSE tables' \in cache /\ cache' = cache]_vars

\* a rerun without refresh that reads tables the file no longer holds
C8_Witness == pc = "main" /\ ~refreshed /\ tables # source /\ cache = {tables}

Listed(tag) == \E k \in 1..Len(recommendations) : recommendations[k] = tag

TaktCond == Gt(result.new_bottleneck_time, metrics.takt_time)

SavedCond == Gt(result.total_time_saved, Zero)

\* sample standard deviation over mean above 0.2: at least two rows, a
\* positive mean, and 25 * n * sum((x - mean)^2) > (n - 1) * n * mean^2
VariationCond ==
    LET n == Len(route_ops)
        total == RefTotal(CycleTimes(route_ops), n)
        dev == [i \in Rows |->
                   LET d == Sub(Mul(Num(n), route_ops[i].cycletime), total)
                   IN  Mul(d, d)]
    IN  /\ n >= 2
        /\ Gt(total, Zero)
        /\ Gt(Mul(Num(25 * n), RefTotal(dev, n)), Mul(Num((n - 1) * n), Mul(total, total)))

SetupCond ==
    tables.has_setup /\ \E i \in Rows : Gt(route_ops[i].setup_time, Num(300))

ThroughputCond == Lt(result.new_throughput, Num(customer_demand))

ManyOpsCond == Len(route_ops) > 8

FiveRules ==
    /\ Listed("Bottleneck exceeds Takt") <=> TaktCond
    /\ Listed("Improvement validated") <=> SavedCond
    /\ Listed("High variation") <=> VariationCond
    /\ Listed("High setup") <=> SetupCond
    /\ Listed("Low throughput") <=> ThroughputCond

(***************************************************************************)
(* C9.  On every completed run each of the six rules (bottleneck above     *)
(* takt, time saved, variation above 0.2, setup above 300 s when the       *)
(* column exists, throughput below demand, more than 8 operations) appends *)
(* its message exactly when its condition holds, and the balanced message  *)
(* is shown exactly when no condition holds.                               *)
(***************************************************************************)
C9_AllSixRules ==
    pc = "done" =>
        /\ FiveRules
        /\ Listed("Many operations") <=> ManyOpsCond
        /\ "Process is balanced" \in shown
             <=> ~(TaktCond \/ SavedCond \/ VariationCond \/ SetupCond
                   \/ ThroughputCond \/ ManyOpsCond)

(***************************************************************************)
(* C9, amended.  On every completed run each of the five rules of this     *)
(* script appends its message exactly when its condition holds, there is   *)
(* no operation-count rule, and the balanced message is shown exactly when *)
(* none of the five conditions holds.                                      *)
(***************************************************************************)
C9_FiveRules ==
    pc = "done" =>
        /\ FiveRules
        /\ ~Listed("Many operations")
        /\ "Process is balanced" \in shown
             <=> ~(TaktCond \/ SavedCond \/ VariationCond \/ SetupCond \/ ThroughputCond)
        /\ "Process is balanced" \in shown <=> "Recommendations" \notin shown

\* a completed run in which a later rule fires although the first does not,
\* and two rules fire together
C9_Witness ==
    /\ pc = "done"
    /\ ~TaktCond /\ SavedCond /\ VariationCond /\ SetupCond /\ ~ThroughputCond
    /\ Len(recommendations) = 3

IsMax(series, i) == \A j \in 1..Len(series) : Le(series[j], series[i])

LowestFlagged(flag) ==
    LET ops == {route_ops[i].opno : i \in {k \in Rows : flag[k]}}
    IN  CHOOSE o \in ops : \A q \in ops : o <= q

============================================================================
